---------------------------- MODULE Spec2Model ----------------------------
(***************************************************************************)
(* Model of src/main.cpp: a brute-force RC4 key search.  The host loop of  *)
(* brute_force_rc4_gpu enumerates candidate keys, hands each one to the    *)
(* OpenCL kernel rc4_decrypt (one work unit per ciphertext byte), reads    *)
(* the output buffer back and stops at the first candidate whose output    *)
(* passes is_valid_plaintext.  main writes the result to a file.           *)
(*                                                                         *)
(* Bytes are the integers 0..255.  A host vector / std::string / device    *)
(* buffer is a sequence of bytes (index p of the code is index p + 1       *)
(* here).  The kernel's private table S is a function on 0..255.           *)
(***************************************************************************)
EXTENDS Integers, Sequences, FiniteSets, TLC

VARIABLES
    charset,                \* argument of brute_force_rc4_gpu (main.cpp:195)
    max_key_length,         \* argument of brute_force_rc4_gpu (main.cpp:196)
    encrypted_data,         \* the host ciphertext vector (main.cpp:191)
    origin,                 \* ghost: how the input file was produced
    pc,                     \* position of the host thread
    state,                  \* Search Controller state
    key_length,             \* outer loop variable (main.cpp:127)
    key_str,                \* current candidate (main.cpp:129)
    keys,                   \* host copy of the candidate bytes (main.cpp:128)
    decrypted_data,         \* host result vector (main.cpp:110)
    mem,                    \* device memory: live buffer handle -> contents
    next_handle,            \* next fresh cl_mem handle
    encrypted_data_buffer,  \* cl_mem handle (main.cpp:112), 0 = none
    decrypted_data_buffer,  \* cl_mem handle (main.cpp:118), 0 = none
    keys_buffer,            \* cl_mem handle (main.cpp:134), 0 = none
    kernel_args,            \* arguments bound to the kernel (main.cpp:140-144)
    pending,                \* work units of the enqueued NDRange not yet run
    result,                 \* value returned by brute_force_rc4_gpu
    returned,               \* TRUE once brute_force_rc4_gpu has returned
    found_key,              \* key printed at main.cpp:166, <<>> if none
    stdout,                 \* messages printed on std::cout
    what,                   \* what() of the exception in flight, "" if none
    exit_code,              \* return value of main, -1 while running
    output_file,            \* contents written to decrypted_file.bin
    dispatched,             \* history: candidates handed to the backend
    verdicts,               \* history: validator verdict of each read-back
    vdata,                  \* validator harness: input buffer
    vresult,                \* validator harness: "none" | "accept" | "reject"
    wu                      \* kernel harness: one work-item of rc4_decrypt

vars == <<charset, max_key_length, encrypted_data, origin, pc, state,
          key_length, key_str, keys, decrypted_data, mem, next_handle,
          encrypted_data_buffer, decrypted_data_buffer, keys_buffer,
          kernel_args, pending, result, returned, found_key, stdout, what,
          exit_code, output_file, dispatched, verdicts, vdata, vresult, wu>>

---------------------------------------------------------------------------
(* Bounds of the model. *)

MaxKeyLength == 2
MaxDataLen == 2

(* Program constants. *)

TableSize == 256

Byte == 0..255

---------------------------------------------------------------------------
(* The kernel rc4_decrypt, main.cpp:13-41. *)

RECURSIVE XorBits(_, _, _)
XorBits(a, b, n) ==
    IF n = 0 THEN 0
    ELSE ((a + b) % 2) + 2 * XorBits(a \div 2, b \div 2, n - 1)

\* a ^ b on uchar operands (main.cpp:39)
Xor(a, b) == XorBits(a, b, 8)

\* an exchange without the temporary: S[a] = S[b]; S[b] = S[a];
Swap_NoTemp(S, a, b) == [S EXCEPT ![a] = S[b]]

\* uchar temp = S[a]; S[a] = S[b]; S[b] = temp;  (main.cpp:27-29, 35-37)
Swap(S, a, b) == [S EXCEPT ![a] = S[b], ![b] = S[a]]

\* for (k = 0; k < 256; k++) S[k] = k;  (main.cpp:20-24), i = j = 0
IdentityState == [S |-> [k \in 0..(TableSize - 1) |-> k], i |-> 0, j |-> 0]

\* one iteration of the key-scheduling loop (main.cpp:26-29)
KsaStep(st, k, keyBytes, keyLen) ==
    LET j2 == (st.j + st.S[k] + keyBytes[(k % keyLen) + 1]) % 256
    IN  [S |-> Swap(st.S, k, j2), i |-> st.i, j |-> j2]

\* iterations lo .. hi-1 of the key-scheduling loop (main.cpp:25-30), run in
\* order.  The range is split in two so that the evaluation depth stays
\* logarithmic; the test on left.j (always true) makes the first half be
\* evaluated before the second half starts.
RECURSIVE KsaLoop(_, _, _, _, _)
KsaLoop(st, lo, hi, keyBytes, keyLen) ==
    IF lo >= hi THEN st
    ELSE IF hi = lo + 1 THEN KsaStep(st, lo, keyBytes, keyLen)
    ELSE LET mid == (lo + hi) \div 2
             left == KsaLoop(st, lo, mid, keyBytes, keyLen)
         IN  IF left.j >= 0
             THEN KsaLoop(left, mid, hi, keyBytes, keyLen)
             ELSE left

\* one iteration of the cursor-advance loop (main.cpp:33-37)
PrgaStep(st) ==
    LET i2 == (st.i + 1) % 256
        j2 == (st.j + st.S[i2]) % 256
    IN  [S |-> Swap(st.S, i2, j2), i |-> i2, j |-> j2]

\* n iterations of the cursor-advance loop
RECURSIVE PrgaLoop(_, _)
PrgaLoop(st, n) ==
    IF n <= 0 THEN st ELSE PrgaStep(PrgaLoop(st, n - 1))

\* the table after the key schedule, cursors reset (main.cpp:20-31)
KeyedState(keyBytes, keyLen) ==
    LET st == KsaLoop(IdentityState, 0, TableSize, keyBytes, keyLen)
    IN  [S |-> st.S, i |-> 0, j |-> 0]

\* S[(S[i] + S[j]) % 256]  (main.cpp:39)
EmitByte(st) == st.S[(st.S[st.i] + st.S[st.j]) % 256]

\* number of cursor advances work unit gid makes: for (n = 0; n < gid; n++)
\* (main.cpp:32)
KernelAdvances(gid) == gid

\* the keystream byte work unit gid computes (main.cpp:20-39)
KernelKeystream(keyBytes, keyLen, gid) ==
    EmitByte(PrgaLoop(KeyedState(keyBytes, keyLen), KernelAdvances(gid)))

\* a kernel whose work units all store through the same output index
\* (decrypted_data[0] in place of decrypted_data[gid])
rc4_decrypt_SharedIndex(encrypted, decrypted, keyBytes, keyLen, data_length, gid) ==
    IF gid < data_length
    THEN [decrypted EXCEPT
            ![1] = Xor(encrypted[gid + 1],
                       KernelKeystream(keyBytes, keyLen, gid))]
    ELSE decrypted

\* a kernel whose guard leaves out the last position (gid < data_length - 1)
rc4_decrypt_SkipLast(encrypted, decrypted, keyBytes, keyLen, data_length, gid) ==
    IF gid < data_length - 1
    THEN [decrypted EXCEPT
            ![gid + 1] = Xor(encrypted[gid + 1],
                             KernelKeystream(keyBytes, keyLen, gid))]
    ELSE decrypted

\* One work unit of the kernel: the output buffer after work unit gid ran
\* with the given arguments (main.cpp:13-41).
rc4_decrypt(encrypted, decrypted, keyBytes, keyLen, data_length, gid) ==
    IF gid < data_length
    THEN [decrypted EXCEPT
            ![gid + 1] = Xor(encrypted[gid + 1],
                             KernelKeystream(keyBytes, keyLen, gid))]
    ELSE decrypted

---------------------------------------------------------------------------
(* is_valid_plaintext, main.cpp:44-49. *)

\* isprint in the "C" locale (main never calls setlocale)
IsPrint(c) == c >= 32 /\ c <= 126

\* isspace in the "C" locale: space, \t, \n, \v, \f, \r
IsSpace(c) == c = 32 \/ (c >= 9 /\ c <= 13)

\* the lambda with the isspace test left out
ValidChar_PrintOnly(c) == IsPrint(c)

\* the lambda of main.cpp:46-48
ValidChar(c) == IsPrint(c) \/ IsSpace(c)

\* std::all_of over data[from..]: stops at the first byte the lambda rejects
RECURSIVE AllOfFrom(_, _)
AllOfFrom(data, from) ==
    IF from > Len(data) THEN TRUE
    ELSE IF ~ValidChar(data[from]) THEN FALSE
    ELSE AllOfFrom(data, from + 1)

is_valid_plaintext(data) == AllOfFrom(data, 1)

---------------------------------------------------------------------------
(* std::next_permutation as called at main.cpp:172. *)

Reverse(s) == [k \in 1..Len(s) |-> s[Len(s) + 1 - k]]

\* [more |-> the value returned, str |-> the string left behind]
NextPermutation(s) ==
    LET asc == {k \in 1..(Len(s) - 1) : s[k] < s[k + 1]}
    IN  IF asc = {}
        THEN [more |-> FALSE, str |-> Reverse(s)]
        ELSE LET a == CHOOSE k \in asc : \A m \in asc : m <= k
                 b == CHOOSE k \in (a + 1)..Len(s) :
                          /\ s[a] < s[k]
                          /\ \A m \in (k + 1)..Len(s) : ~(s[a] < s[m])
                 sw == [s EXCEPT ![a] = s[b], ![b] = s[a]]
             IN  [more |-> TRUE,
                  str  |-> SubSeq(sw, 1, a) \o Reverse(SubSeq(sw, a + 1, Len(s)))]

\* charset[0]: operator[] of std::string at size() yields the terminating
\* '\0' (main.cpp:129)
CharsetFront(cs) == IF Len(cs) = 0 THEN 0 ELSE cs[1]

\* std::string key_str(key_length, charset[0])  (main.cpp:129)
InitialKeyStr(cs, len) == [k \in 1..len |-> CharsetFront(cs)]


---------------------------------------------------------------------------
(* The inputs of one run. *)

\* The serial keystream generator the kernel is compared with: the same key
\* schedule and the same cursor-advance rule, run from the reset cursors;
\* output byte number p + 1 is emitted after p + 1 advances.
SerialKeystream(keyBytes, keyLen, p) ==
    EmitByte(PrgaLoop(KeyedState(keyBytes, keyLen), p + 1))

\* encrypt(P, K): P XOR the serial keystream of K
Encrypt(P, K) ==
    [p \in 1..Len(P) |-> Xor(P[p], SerialKeystream(K, Len(K), p - 1))]

\* P XOR the bytes the kernel's work units compute for K
KernelEncrypt(P, K) ==
    [p \in 1..Len(P) |-> Xor(P[p], KernelKeystream(K, Len(K), p - 1))]

\* "hello world"
Text == <<104, 101, 108, 108, 111, 32, 119, 111, 114, 108, 100>>

Lowercase == [k \in 1..26 |-> 96 + k]

Plaintexts == {SubSeq(Text, 1, n) : n \in 0..MaxDataLen}

Charsets == {<< >>, <<97>>, <<97, 98>>}

\* keys the input file may have been encrypted with
SecretKeys ==
    {[k \in 1..len |-> 97] : len \in 1..MaxKeyLength} \cup {<<98>>, <<97, 98>>}

\* keys of the shape the search loop builds
RepeatedKeys == {[k \in 1..len |-> 97] : len \in 1..MaxKeyLength}

Origins ==
    {[how |-> "serial", P |-> P, K |-> K] : P \in Plaintexts, K \in SecretKeys}
    \cup
    {[how |-> "kernel", P |-> P, K |-> K] : P \in Plaintexts, K \in RepeatedKeys}

CipherOf(o) ==
    IF o.how = "serial" THEN Encrypt(o.P, o.K) ELSE KernelEncrypt(o.P, o.K)

\* contents a CL_MEM_WRITE_ONLY buffer created without host data may hold:
\* a byte the validator rejects and a byte it accepts
UninitFills == {0, 104}

NoArgs ==
    [encrypted_data |-> 0, decrypted_data |-> 0, keys |-> 0,
     key_length |-> 0, data_length |-> 0]

\* no work-item is being followed statement by statement
NoWorkItem ==
    [pc |-> "none", keys |-> << >>, key_length |-> 0, data_length |-> 0,
     gid |-> 0, encrypted |-> 0, k |-> 0, n |-> 0, i |-> 0, j |-> 0,
     S |-> << >>, decrypted |-> -1]

\* the host variables before brute_force_rc4_gpu has done anything
Idle ==
    /\ state = "Init"
    /\ key_length = 0
    /\ key_str = << >>
    /\ keys = << >>
    /\ decrypted_data = << >>
    /\ mem = << >>
    /\ next_handle = 1
    /\ encrypted_data_buffer = 0
    /\ decrypted_data_buffer = 0
    /\ keys_buffer = 0
    /\ kernel_args = NoArgs
    /\ pending = {}
    /\ result = << >>
    /\ returned = FALSE
    /\ found_key = << >>
    /\ stdout = << >>
    /\ what = ""
    /\ exit_code = -1
    /\ output_file = << >>
    /\ dispatched = << >>
    /\ verdicts = << >>

\* everything but the inputs, at the call of brute_force_rc4_gpu
Start ==
    /\ pc = "opencl_init"
    /\ Idle
    /\ vdata = << >>
    /\ vresult = "none"
    /\ wu = NoWorkItem

Init ==
    /\ origin \in Origins
    /\ encrypted_data = CipherOf(origin)
    /\ charset \in Charsets
    /\ max_key_length \in 0..MaxKeyLength
    /\ Start

\* The end-to-end scenarios: "hello world" encrypted under "ab", and a
\* one-byte file that decrypts to "h" under the first candidate; lowercase
\* charset, key length <= 2.
EndToEndOrigins ==
    {[how |-> "serial", P |-> Text, K |-> <<97, 98>>],
     [how |-> "kernel", P |-> <<104>>, K |-> <<97>>]}

InitE2E ==
    /\ origin \in EndToEndOrigins
    /\ encrypted_data = CipherOf(origin)
    /\ charset = Lowercase
    /\ max_key_length = 2
    /\ Start

---------------------------------------------------------------------------
(* The host program. *)

data_length == Len(encrypted_data)

\* throw std::runtime_error(msg) out of brute_force_rc4_gpu: nothing is
\* returned, control goes to the handler of main (main.cpp:212)
Throw(msg) ==
    /\ what' = msg
    /\ state' = "Error"
    /\ pc' = "catch"

InitErrors ==
    {"OpenCL initialization error", "OpenCL context creation error",
     "OpenCL command queue creation error", "OpenCL program creation error",
     "OpenCL program build error", "OpenCL kernel creation error"}

\* main.cpp:63-107: platform, device, context, queue, program, kernel
InitOpenCLOk ==
    /\ pc = "opencl_init"
    /\ pc' = "create_encrypted"
    /\ UNCHANGED <<charset, max_key_length, encrypted_data, origin, state,
                   key_length, key_str, keys, decrypted_data, mem,
                   next_handle, encrypted_data_buffer, decrypted_data_buffer,
                   keys_buffer, kernel_args, pending, result, returned,
                   found_key, stdout, what, exit_code, output_file,
                   dispatched, verdicts, vdata, vresult, wu>>

InitOpenCLFail ==
    /\ pc = "opencl_init"
    /\ \E msg \in InitErrors : Throw(msg)
    /\ UNCHANGED <<charset, max_key_length, encrypted_data, origin,
                   key_length, key_str, keys, decrypted_data, mem,
                   next_handle, encrypted_data_buffer, decrypted_data_buffer,
                   keys_buffer, kernel_args, pending, result, returned,
                   found_key, stdout, exit_code, output_file,
                   dispatched, verdicts, vdata, vresult, wu>>

\* main.cpp:109-112: the result vector is value-initialised, the ciphertext
\* is copied into a new device buffer
CreateEncryptedBufferOk ==
    /\ pc = "create_encrypted"
    /\ decrypted_data' = [p \in 1..data_length |-> 0]
    /\ mem' = (next_handle :> encrypted_data) @@ mem
    /\ encrypted_data_buffer' = next_handle
    /\ next_handle' = next_handle + 1
    /\ pc' = "create_decrypted"
    /\ UNCHANGED <<charset, max_key_length, encrypted_data, origin, state,
                   key_length, key_str, keys, decrypted_data_buffer,
                   keys_buffer, kernel_args, pending, result, returned,
                   found_key, stdout, what, exit_code, output_file,
                   dispatched, verdicts, vdata, vresult, wu>>

\* main.cpp:113-116
CreateEncryptedBufferFail ==
    /\ pc = "create_encrypted"
    /\ decrypted_data' = [p \in 1..data_length |-> 0]
    /\ Throw("OpenCL buffer creation error")
    /\ UNCHANGED <<charset, max_key_length, encrypted_data, origin,
                   key_length, key_str, keys, mem, next_handle,
                   encrypted_data_buffer, decrypted_data_buffer,
                   keys_buffer, kernel_args, pending, result, returned,
                   found_key, stdout, exit_code, output_file,
                   dispatched, verdicts, vdata, vresult, wu>>

\* main.cpp:118, 125-127: the output buffer is created without contents; the
\* search starts with key_length = 1
CreateDecryptedBufferOk ==
    /\ pc = "create_decrypted"
    /\ \E fill \in UninitFills :
          mem' = (next_handle :> [p \in 1..data_length |-> fill]) @@ mem
    /\ decrypted_data_buffer' = next_handle
    /\ next_handle' = next_handle + 1
    /\ state' = "Searching"
    /\ key_length' = 1
    /\ pc' = "for_key_length"
    /\ UNCHANGED <<charset, max_key_length, encrypted_data, origin,
                   key_str, keys, decrypted_data, encrypted_data_buffer,
                   keys_buffer, kernel_args, pending, result, returned,
                   found_key, stdout, what, exit_code, output_file,
                   dispatched, verdicts, vdata, vresult, wu>>

\* main.cpp:119-122
CreateDecryptedBufferFail ==
    /\ pc = "create_decrypted"
    /\ Throw("OpenCL buffer creation error")
    /\ UNCHANGED <<charset, max_key_length, encrypted_data, origin,
                   key_length, key_str, keys, decrypted_data, mem,
                   next_handle, encrypted_data_buffer, decrypted_data_buffer,
                   keys_buffer, kernel_args, pending, result, returned,
                   found_key, stdout, exit_code, output_file,
                   dispatched, verdicts, vdata, vresult, wu>>

\* the loop test with < in place of <=
KeyLengthInRange_Strict(len, max) == len < max

\* the loop test of main.cpp:127
KeyLengthInRange(len, max) == len <= max

\* main.cpp:127-129: the loop test holds; a new first candidate is built
ForKeyLengthEnter ==
    /\ pc = "for_key_length"
    /\ KeyLengthInRange(key_length, max_key_length)
    /\ keys' = [k \in 1..key_length |-> 0]
    /\ key_str' = InitialKeyStr(charset, key_length)
    /\ pc' = "create_keys"
    /\ UNCHANGED <<charset, max_key_length, encrypted_data, origin, state,
                   key_length, decrypted_data, mem, next_handle,
                   encrypted_data_buffer, decrypted_data_buffer,
                   keys_buffer, kernel_args, pending, result, returned,
                   found_key, stdout, what, exit_code, output_file,
                   dispatched, verdicts, vdata, vresult, wu>>

\* the value of "return {}" (main.cpp:180)
NotFoundResult == << >>

\* main.cpp:127, 175-180: the loop test fails; "No valid key found"
ForKeyLengthExit ==
    /\ pc = "for_key_length"
    /\ ~KeyLengthInRange(key_length, max_key_length)
    /\ stdout' = Append(stdout, "No valid key found")
    /\ result' = NotFoundResult
    /\ returned' = TRUE
    /\ state' = "Exhausted"
    /\ pc' = "main_check"
    /\ UNCHANGED <<charset, max_key_length, encrypted_data, origin,
                   key_length, key_str, keys, decrypted_data, mem,
                   next_handle, encrypted_data_buffer, decrypted_data_buffer,
                   keys_buffer, kernel_args, pending, found_key, what,
                   exit_code, output_file, dispatched, verdicts, vdata,
                   vresult, wu>>

inputs == <<charset, max_key_length, encrypted_data, origin>>

harness == <<vdata, vresult, wu>>

\* main.cpp:132-134: the candidate is copied into keys and into a new
\* device buffer
CreateKeysBufferOk ==
    /\ pc = "create_keys"
    /\ keys' = key_str
    /\ dispatched' = Append(dispatched, key_str)
    /\ mem' = (next_handle :> key_str) @@ mem
    /\ keys_buffer' = next_handle
    /\ next_handle' = next_handle + 1
    /\ pc' = "set_args"
    /\ UNCHANGED <<inputs, harness, state, key_length, key_str,
                   decrypted_data, encrypted_data_buffer,
                   decrypted_data_buffer, kernel_args, pending, result,
                   returned, found_key, stdout, what, exit_code,
                   output_file, verdicts>>

\* main.cpp:132-138
CreateKeysBufferFail ==
    /\ pc = "create_keys"
    /\ keys' = key_str
    /\ dispatched' = Append(dispatched, key_str)
    /\ Throw("OpenCL buffer creation error")
    /\ UNCHANGED <<inputs, harness, key_length, key_str, decrypted_data,
                   mem, next_handle, encrypted_data_buffer,
                   decrypted_data_buffer, keys_buffer, kernel_args, pending,
                   result, returned, found_key, stdout, exit_code,
                   output_file, verdicts>>

\* arguments 0 and 1 bound the other way round: the kernel's output
\* pointer is the ciphertext buffer
BoundArgs_Swapped(ok) ==
    [encrypted_data |-> IF 0 \in ok THEN decrypted_data_buffer
                        ELSE kernel_args.encrypted_data,
     decrypted_data |-> IF 1 \in ok THEN encrypted_data_buffer
                        ELSE kernel_args.decrypted_data,
     keys           |-> IF 2 \in ok THEN keys_buffer ELSE kernel_args.keys,
     key_length     |-> IF 3 \in ok THEN key_length
                        ELSE kernel_args.key_length,
     data_length    |-> IF 4 \in ok THEN data_length
                        ELSE kernel_args.data_length]

\* the five clSetKernelArg calls of main.cpp:140-144; all five are made
\* (err |= ...), the calls in ok succeed and bind their argument
BoundArgs(ok) ==
    [encrypted_data |-> IF 0 \in ok THEN encrypted_data_buffer
                        ELSE kernel_args.encrypted_data,
     decrypted_data |-> IF 1 \in ok THEN decrypted_data_buffer
                        ELSE kernel_args.decrypted_data,
     keys           |-> IF 2 \in ok THEN keys_buffer ELSE kernel_args.keys,
     key_length     |-> IF 3 \in ok THEN key_length
                        ELSE kernel_args.key_length,
     data_length    |-> IF 4 \in ok THEN data_length
                        ELSE kernel_args.data_length]

\* main.cpp:140-145, err == CL_SUCCESS
SetKernelArgsOk ==
    /\ pc = "set_args"
    /\ kernel_args' = BoundArgs(0..4)
    /\ pc' = "enqueue"
    /\ UNCHANGED <<inputs, harness, state, key_length, key_str, keys,
                   decrypted_data, mem, next_handle, encrypted_data_buffer,
                   decrypted_data_buffer, keys_buffer, pending, result,
                   returned, found_key, stdout, what, exit_code,
                   output_file, dispatched, verdicts>>

\* main.cpp:140-148, some call failed
SetKernelArgsFail ==
    /\ pc = "set_args"
    /\ \E ok \in (SUBSET (0..4)) \ {0..4} : kernel_args' = BoundArgs(ok)
    /\ Throw("OpenCL kernel argument setting error")
    /\ UNCHANGED <<inputs, harness, key_length, key_str, keys,
                   decrypted_data, mem, next_handle, encrypted_data_buffer,
                   decrypted_data_buffer, keys_buffer, pending, result,
                   returned, found_key, stdout, exit_code, output_file,
                   dispatched, verdicts>>

\* main.cpp:150-151: one NDRange of global_work_size = data_length units
EnqueueNDRangeKernelOk ==
    /\ pc = "enqueue"
    /\ pending' = 0..(data_length - 1)
    /\ pc' = "read"
    /\ UNCHANGED <<inputs, harness, state, key_length, key_str, keys,
                   decrypted_data, mem, next_handle, encrypted_data_buffer,
                   decrypted_data_buffer, keys_buffer, kernel_args, result,
                   returned, found_key, stdout, what, exit_code,
                   output_file, dispatched, verdicts>>

\* main.cpp:151-155
EnqueueNDRangeKernelFail ==
    /\ pc = "enqueue"
    /\ Throw("OpenCL kernel enqueue error")
    /\ UNCHANGED <<inputs, harness, key_length, key_str, keys,
                   decrypted_data, mem, next_handle, encrypted_data_buffer,
                   decrypted_data_buffer, keys_buffer, kernel_args, pending,
                   result, returned, found_key, stdout, exit_code,
                   output_file, dispatched, verdicts>>

\* The device runs one work unit of the enqueued kernel, in any order,
\* while the host waits in the blocking read (main.cpp:18-40).
WorkUnit ==
    /\ pc = "read"
    /\ \E gid \in pending :
          /\ mem' = [mem EXCEPT ![kernel_args.decrypted_data] =
                        rc4_decrypt(mem[kernel_args.encrypted_data],
                                    mem[kernel_args.decrypted_data],
                                    mem[kernel_args.keys],
                                    kernel_args.key_length,
                                    kernel_args.data_length, gid)]
          /\ pending' = pending \ {gid}
    /\ UNCHANGED <<inputs, harness, pc, state, key_length, key_str, keys,
                   decrypted_data, next_handle, encrypted_data_buffer,
                   decrypted_data_buffer, keys_buffer, kernel_args, result,
                   returned, found_key, stdout, what, exit_code,
                   output_file, dispatched, verdicts>>

\* a read-back that does not wait for the kernel (blocking_read = CL_FALSE
\* with no wait on the kernel): it copies whatever the buffer holds
ReadBufferOk_NonBlocking ==
    /\ pc = "read"
    /\ decrypted_data' = mem[decrypted_data_buffer]
    /\ pc' = "validate"
    /\ UNCHANGED <<inputs, harness, state, key_length, key_str, keys, mem,
                   next_handle, encrypted_data_buffer, decrypted_data_buffer,
                   keys_buffer, kernel_args, pending, result, returned,
                   found_key, stdout, what, exit_code, output_file,
                   dispatched, verdicts>>

\* main.cpp:157: the blocking read on the in-order queue completes after
\* the kernel and copies the output buffer into the host vector
ReadBufferOk ==
    /\ pc = "read"
    /\ pending = {}
    /\ decrypted_data' = mem[decrypted_data_buffer]
    /\ pc' = "validate"
    /\ UNCHANGED <<inputs, harness, state, key_length, key_str, keys, mem,
                   next_handle, encrypted_data_buffer, decrypted_data_buffer,
                   keys_buffer, kernel_args, pending, result, returned,
                   found_key, stdout, what, exit_code, output_file,
                   dispatched, verdicts>>

\* a failed read that is reported and skipped: the loop goes on to the
\* next candidate
ReadBufferFail_Skip ==
    /\ pc = "read"
    /\ what' = "OpenCL buffer read error"
    /\ pc' = "release"
    /\ UNCHANGED <<inputs, harness, state, key_length, key_str, keys,
                   decrypted_data, mem, next_handle, encrypted_data_buffer,
                   decrypted_data_buffer, keys_buffer, kernel_args, pending,
                   result, returned, found_key, stdout, exit_code,
                   output_file, dispatched, verdicts>>

\* main.cpp:157-161: the read fails; nothing is copied
ReadBufferFail ==
    /\ pc = "read"
    /\ Throw("OpenCL buffer read error")
    /\ UNCHANGED <<inputs, harness, key_length, key_str, keys,
                   decrypted_data, mem, next_handle, encrypted_data_buffer,
                   decrypted_data_buffer, keys_buffer, kernel_args, pending,
                   result, returned, found_key, stdout, exit_code,
                   output_file, dispatched, verdicts>>

\* an acceptance that is reported without returning: the loop goes on
ValidateAccept_NoReturn ==
    /\ pc = "validate"
    /\ is_valid_plaintext(decrypted_data)
    /\ verdicts' = Append(verdicts, TRUE)
    /\ stdout' = Append(stdout, "Decryption successful, key found")
    /\ found_key' = key_str
    /\ result' = decrypted_data
    /\ state' = "Found"
    /\ pc' = "release"
    /\ UNCHANGED <<inputs, harness, key_length, key_str, keys,
                   decrypted_data, mem, next_handle, encrypted_data_buffer,
                   decrypted_data_buffer, keys_buffer, kernel_args, pending,
                   returned, what, exit_code, output_file, dispatched>>

\* main.cpp:163-168: the validator accepts; the function returns
ValidateAccept ==
    /\ pc = "validate"
    /\ is_valid_plaintext(decrypted_data)
    /\ verdicts' = Append(verdicts, TRUE)
    /\ stdout' = Append(stdout, "Decryption successful, key found")
    /\ found_key' = key_str
    /\ result' = decrypted_data
    /\ returned' = TRUE
    /\ state' = "Found"
    /\ pc' = "main_check"
    /\ UNCHANGED <<inputs, harness, key_length, key_str, keys,
                   decrypted_data, mem, next_handle, encrypted_data_buffer,
                   decrypted_data_buffer, keys_buffer, kernel_args, pending,
                   what, exit_code, output_file, dispatched>>

\* main.cpp:163: the validator rejects
ValidateReject ==
    /\ pc = "validate"
    /\ ~is_valid_plaintext(decrypted_data)
    /\ verdicts' = Append(verdicts, FALSE)
    /\ pc' = "release"
    /\ UNCHANGED <<inputs, harness, state, key_length, key_str, keys,
                   decrypted_data, mem, next_handle, encrypted_data_buffer,
                   decrypted_data_buffer, keys_buffer, kernel_args, pending,
                   result, returned, found_key, stdout, what, exit_code,
                   output_file, dispatched>>

\* a loop body that ends without clReleaseMemObject(keys_buffer): the handle
\* goes out of scope and the buffer stays on the device
ReleaseMemObject_Forgotten ==
    /\ pc = "release"
    /\ keys_buffer' = 0
    /\ pc' = "next_permutation"
    /\ UNCHANGED <<inputs, harness, state, key_length, key_str, keys,
                   decrypted_data, mem, next_handle, encrypted_data_buffer,
                   decrypted_data_buffer, kernel_args, pending, result,
                   returned, found_key, stdout, what, exit_code,
                   output_file, dispatched, verdicts>>

\* main.cpp:171: clReleaseMemObject(keys_buffer); the handle goes out of
\* scope at the end of the loop body
ReleaseMemObject ==
    /\ pc = "release"
    /\ mem' = [h \in (DOMAIN mem) \ {keys_buffer} |-> mem[h]]
    /\ keys_buffer' = 0
    /\ pc' = "next_permutation"
    /\ UNCHANGED <<inputs, harness, state, key_length, key_str, keys,
                   decrypted_data, next_handle, encrypted_data_buffer,
                   decrypted_data_buffer, kernel_args, pending, result,
                   returned, found_key, stdout, what, exit_code,
                   output_file, dispatched, verdicts>>

\* a do-loop that repeats whatever std::next_permutation returns: the
\* candidate left in key_str is dispatched again
NextPermutationStep_Retry ==
    /\ pc = "next_permutation"
    /\ key_str' = NextPermutation(key_str).str
    /\ pc' = "create_keys"
    /\ UNCHANGED <<inputs, harness, state, key_length, keys, decrypted_data,
                   mem, next_handle, encrypted_data_buffer,
                   decrypted_data_buffer, keys_buffer, kernel_args, pending,
                   result, returned, found_key, stdout, what, exit_code,
                   output_file, dispatched, verdicts>>

\* a loop that calls std::next_permutation until it returns true: it spins
\* on a string that has no further permutation
NextPermutationStep_Spin ==
    /\ pc = "next_permutation"
    /\ LET np == NextPermutation(key_str)
       IN  /\ key_str' = np.str
           /\ IF np.more
              THEN pc' = "create_keys"
              ELSE pc' = "next_permutation"
    /\ UNCHANGED <<inputs, harness, state, key_length, keys, decrypted_data,
                   mem, next_handle, encrypted_data_buffer,
                   decrypted_data_buffer, keys_buffer, kernel_args, pending,
                   result, returned, found_key, stdout, what, exit_code,
                   output_file, dispatched, verdicts>>

\* main.cpp:172, 127: std::next_permutation rearranges key_str; when it
\* returns true the do-loop repeats, otherwise the for-loop does ++key_length
NextPermutationStep ==
    /\ pc = "next_permutation"
    /\ LET np == NextPermutation(key_str)
       IN  /\ key_str' = np.str
           /\ IF np.more
              THEN pc' = "create_keys" /\ key_length' = key_length
              ELSE pc' = "for_key_length" /\ key_length' = key_length + 1
    /\ UNCHANGED <<inputs, harness, state, keys, decrypted_data, mem,
                   next_handle, encrypted_data_buffer, decrypted_data_buffer,
                   keys_buffer, kernel_args, pending, result, returned,
                   found_key, stdout, what, exit_code, output_file,
                   dispatched, verdicts>>

\* main.cpp:200, 217: the returned vector is empty; nothing is written
MainEmpty ==
    /\ pc = "main_check"
    /\ result = << >>
    /\ exit_code' = 0
    /\ pc' = "exit"
    /\ UNCHANGED <<inputs, harness, state, key_length, key_str, keys,
                   decrypted_data, mem, next_handle, encrypted_data_buffer,
                   decrypted_data_buffer, keys_buffer, kernel_args, pending,
                   result, returned, found_key, stdout, what, output_file,
                   dispatched, verdicts>>

\* main.cpp:200-209, 217: the returned vector is written to the output file
MainWrite ==
    /\ pc = "main_check"
    /\ result # << >>
    /\ output_file' = result
    /\ stdout' = Append(stdout,
          "Decryption successful, output written to decrypted_file.bin")
    /\ exit_code' = 0
    /\ pc' = "exit"
    /\ UNCHANGED <<inputs, harness, state, key_length, key_str, keys,
                   decrypted_data, mem, next_handle, encrypted_data_buffer,
                   decrypted_data_buffer, keys_buffer, kernel_args, pending,
                   result, returned, found_key, what, dispatched, verdicts>>

\* main.cpp:200-205: the output file cannot be opened
MainWriteFail ==
    /\ pc = "main_check"
    /\ result # << >>
    /\ what' = "File open error"
    /\ pc' = "catch"
    /\ UNCHANGED <<inputs, harness, state, key_length, key_str, keys,
                   decrypted_data, mem, next_handle, encrypted_data_buffer,
                   decrypted_data_buffer, keys_buffer, kernel_args, pending,
                   result, returned, found_key, stdout, exit_code,
                   output_file, dispatched, verdicts>>

\* main.cpp:212-215: the handler of main reports the error and returns 1
MainCatch ==
    /\ pc = "catch"
    /\ exit_code' = 1
    /\ pc' = "exit"
    /\ UNCHANGED <<inputs, harness, state, key_length, key_str, keys,
                   decrypted_data, mem, next_handle, encrypted_data_buffer,
                   decrypted_data_buffer, keys_buffer, kernel_args, pending,
                   result, returned, found_key, stdout, what, output_file,
                   dispatched, verdicts>>

Next ==
    \/ InitOpenCLOk
    \/ InitOpenCLFail
    \/ CreateEncryptedBufferOk
    \/ CreateEncryptedBufferFail
    \/ CreateDecryptedBufferOk
    \/ CreateDecryptedBufferFail
    \/ ForKeyLengthEnter
    \/ ForKeyLengthExit
    \/ CreateKeysBufferOk
    \/ CreateKeysBufferFail
    \/ SetKernelArgsOk
    \/ SetKernelArgsFail
    \/ EnqueueNDRangeKernelOk
    \/ EnqueueNDRangeKernelFail
    \/ WorkUnit
    \/ ReadBufferOk
    \/ ReadBufferFail
    \/ ValidateAccept
    \/ ValidateReject
    \/ ReleaseMemObject
    \/ NextPermutationStep
    \/ MainEmpty
    \/ MainWrite
    \/ MainWriteFail
    \/ MainCatch

Spec == Init /\ [][Next]_vars

\* The steps of the host thread that are bound to happen: it runs its next
\* statement and every call returns.  A call may fail, but nothing makes it
\* fail.
Progress ==
    \/ InitOpenCLOk
    \/ CreateEncryptedBufferOk
    \/ CreateDecryptedBufferOk
    \/ ForKeyLengthEnter
    \/ ForKeyLengthExit
    \/ CreateKeysBufferOk
    \/ SetKernelArgsOk
    \/ EnqueueNDRangeKernelOk
    \/ ReadBufferOk
    \/ ValidateAccept
    \/ ValidateReject
    \/ ReleaseMemObject
    \/ NextPermutationStep
    \/ MainEmpty
    \/ MainWrite
    \/ MainCatch

\* What a WorkUnit step does to pending: one unit of the enqueued kernel is
\* retired.  The steps of the program that satisfy it are the WorkUnit steps.
Retire ==
    /\ pc = "read"
    /\ \E gid \in pending : pending' = pending \ {gid}

\* The host thread keeps running and the device runs every work unit of an
\* enqueued kernel.
SpecLive == Init /\ [][Next]_vars /\ WF_vars(Progress) /\ WF_pending(Retire)

SpecE2E == InitE2E /\ [][Next]_vars

---------------------------------------------------------------------------
(* is_valid_plaintext on its own: the function applied to a given buffer. *)

\* bytes at and around the edges of the character classes
SampleBytes == {0, 8, 9, 10, 13, 14, 31, 32, 65, 126, 127, 128, 255}

MaxValidatorLen == 2

RECURSIVE SeqsUpTo(_, _)
SeqsUpTo(S, n) ==
    IF n = 0 THEN {<< >>}
    ELSE LET shorter == SeqsUpTo(S, n - 1)
         IN  shorter \cup {Append(q, b) : q \in shorter, b \in S}

ValidatorInputs ==
    SeqsUpTo(SampleBytes, MaxValidatorLen) \cup {<<b>> : b \in Byte}

InitValidator ==
    /\ vdata \in ValidatorInputs
    /\ vresult = "none"
    /\ wu = NoWorkItem
    /\ pc = "harness"
    /\ origin = [how |-> "kernel", P |-> << >>, K |-> <<97>>]
    /\ encrypted_data = << >>
    /\ charset = <<97>>
    /\ max_key_length = 0
    /\ Idle

\* a call of is_valid_plaintext(vdata)
CallValidator ==
    /\ pc = "harness"
    /\ vresult = "none"
    /\ vresult' = IF is_valid_plaintext(vdata) THEN "accept" ELSE "reject"
    /\ UNCHANGED <<inputs, vdata, wu, pc, state, key_length, key_str, keys,
                   decrypted_data, mem, next_handle, encrypted_data_buffer,
                   decrypted_data_buffer, keys_buffer, kernel_args, pending,
                   result, returned, found_key, stdout, what, exit_code,
                   output_file, dispatched, verdicts>>

SpecValidator == InitValidator /\ [][CallValidator]_vars

(* rc4_decrypt on its own, statement by statement: one work-item with the
   arguments the host binds (main.cpp:17-40). *)

\* largest global id followed
MaxGid == 2

\* the ciphertext byte encrypted_data[gid] a work-item may load
CipherBytes == {0, 104, 255}

\* the candidates the host hands to the kernel: charset[0] repeated
KernelKeys ==
    {[k \in 1..len |-> CharsetFront(cs)] :
        len \in 1..MaxKeyLength, cs \in Charsets}

\* the host variables, which the work-item does not touch
host == <<pc, state, key_length, key_str, keys, decrypted_data, mem,
          next_handle, encrypted_data_buffer, decrypted_data_buffer,
          keys_buffer, kernel_args, pending, result, returned, found_key,
          stdout, what, exit_code, output_file, dispatched, verdicts>>

\* a work-item at the entry of the kernel; the private table S is not
\* initialised yet
InitKernel ==
    /\ \E ks \in KernelKeys, gid \in 0..MaxGid, fill \in UninitFills :
          wu = [pc |-> "enter", keys |-> ks, key_length |-> Len(ks),
                data_length |-> MaxGid + 1, gid |-> gid, encrypted |-> 0,
                k |-> 0, n |-> 0, i |-> 0, j |-> 0,
                S |-> [x \in 0..(TableSize - 1) |-> fill], decrypted |-> -1]
    /\ pc = "kernel"
    /\ origin = [how |-> "kernel", P |-> << >>, K |-> <<97>>]
    /\ encrypted_data = << >>
    /\ charset = <<97>>
    /\ max_key_length = 0
    /\ vdata = << >>
    /\ vresult = "none"
    /\ Idle

\* main.cpp:18-23: the guard holds for every work-item of an NDRange of
\* data_length units; i = j = 0 and S[k] = k for all k
KernelFillTable ==
    /\ wu.pc = "enter"
    /\ IF wu.gid < wu.data_length
       THEN wu' = [wu EXCEPT !.pc = "ksa", !.k = 0,
                             !.S = IdentityState.S,
                             !.i = IdentityState.i, !.j = IdentityState.j]
       ELSE wu' = [wu EXCEPT !.pc = "done"]
    /\ UNCHANGED <<inputs, vdata, vresult, host>>

\* main.cpp:25-30: one iteration of the key-scheduling loop
KernelKsaIter ==
    /\ wu.pc = "ksa"
    /\ wu.k < TableSize
    /\ LET st == KsaStep([S |-> wu.S, i |-> wu.i, j |-> wu.j], wu.k,
                         wu.keys, wu.key_length)
       IN  wu' = [wu EXCEPT !.S = st.S, !.i = st.i, !.j = st.j,
                            !.k = wu.k + 1]
    /\ UNCHANGED <<inputs, vdata, vresult, host>>

\* main.cpp:25, 31: the key-scheduling loop ends; i = j = 0
KernelResetCursors ==
    /\ wu.pc = "ksa"
    /\ wu.k >= TableSize
    /\ wu' = [wu EXCEPT !.pc = "prga", !.i = 0, !.j = 0, !.n = 0]
    /\ UNCHANGED <<inputs, vdata, vresult, host>>

\* main.cpp:32-38: one iteration of the cursor-advance loop
KernelPrgaIter ==
    /\ wu.pc = "prga"
    /\ wu.n < KernelAdvances(wu.gid)
    /\ LET st == PrgaStep([S |-> wu.S, i |-> wu.i, j |-> wu.j])
       IN  wu' = [wu EXCEPT !.S = st.S, !.i = st.i, !.j = st.j,
                            !.n = wu.n + 1]
    /\ UNCHANGED <<inputs, vdata, vresult, host>>

\* main.cpp:32, 39: the loop ends; the output byte is stored
KernelEmit ==
    /\ wu.pc = "prga"
    /\ wu.n >= KernelAdvances(wu.gid)
    /\ \E e \in CipherBytes :
          wu' = [wu EXCEPT !.pc = "done", !.encrypted = e,
                           !.decrypted =
                               Xor(e, EmitByte([S |-> wu.S, i |-> wu.i,
                                                j |-> wu.j]))]
    /\ UNCHANGED <<inputs, vdata, vresult, host>>

NextKernel ==
    \/ KernelFillTable
    \/ KernelKsaIter
    \/ KernelResetCursors
    \/ KernelPrgaIter
    \/ KernelEmit

SpecKernel == InitKernel /\ [][NextKernel]_vars

---------------------------------------------------------------------------
(* Properties. *)

Range(q) == {q[k] : k \in 1..Len(q)}

\* every string of length len over the characters of cs
StringsOver(cs, len) == [1..len -> Range(cs)]

RECURSIVE Power(_, _)
Power(b, e) == IF e = 0 THEN 1 ELSE b * Power(b, e - 1)

\* the candidates of length len the search has handed to the backend
DispatchedOfLength(len) ==
    {dispatched[k] : k \in {m \in 1..Len(dispatched) : Len(dispatched[m]) = len}}

\* C1: Key Enumerator completeness.  When the search ends without accepting
\* a candidate, for a charset of C >= 1 distinct characters and every length
\* L in 1..max_key_length the candidates dispatched for length L are exactly
\* the C^L strings of length L over the charset.
C1_EnumeratorComplete ==
    (state = "Exhausted" /\ Len(charset) >= 1)
        => \A len \in 1..max_key_length :
              /\ DispatchedOfLength(len) = StringsOver(charset, len)
              /\ Cardinality(DispatchedOfLength(len))
                    = Power(Len(charset), len)

\* C2: the kernel against the serial reference.  Every byte a work unit has
\* written to the output buffer is ciphertext[p] XOR output byte p + 1 of
\* the serial keystream generator run with the candidate key (that is, the
\* unit advanced the cursors p + 1 times before emitting).
C2_KernelMatchesSerial ==
    pc = "read"
        => \A p \in (0..(data_length - 1)) \ pending :
              mem[decrypted_data_buffer][p + 1]
                  = Xor(encrypted_data[p + 1],
                        SerialKeystream(keys, key_length, p))

\* C3: encrypt-then-decrypt round trip.  When the file is encrypt(P, K) and
\* the attempt with candidate K has been read back, the Decrypted Candidate
\* equals P at every position.
C3_RoundTrip ==
    (origin.how = "serial" /\ pc = "validate" /\ key_str = origin.K)
        => decrypted_data = origin.P

\* C4: end-to-end Found.  When the file is the serial-keystream XOR of an
\* all-printable plaintext under a key over the charset of length at most
\* max_key_length and the search returns (no backend failure), it returns in
\* Found, not in Exhausted; for "hello world" under "ab" it reports key "ab"
\* and plaintext "hello world".
C4_EndToEndFound ==
    (/\ origin.how = "serial"
     /\ Len(origin.K) \in 1..max_key_length
     /\ Range(origin.K) \subseteq Range(charset)
     /\ \A k \in 1..Len(origin.P) : origin.P[k] \in 32..126
     /\ state \in {"Found", "Exhausted"})
        => /\ state = "Found"
           /\ (origin.P = Text /\ origin.K = <<97, 98>>)
                 => (found_key = <<97, 98>> /\ result = Text)

\* the variables an attempt (generate, allocate, bind, execute, read back,
\* validate, release) or the enumeration changes
attempt == <<dispatched, verdicts, mem, next_handle, keys_buffer, kernel_args,
             pending, decrypted_data, key_str, keys, key_length>>

\* C5: Found stops the search.  A validator acceptance puts the search in
\* Found, and from Found on the state stays Found and no step generates,
\* allocates, binds, executes, reads back or validates anything.
C5_FoundStops ==
    [][/\ (verdicts' # verdicts /\ verdicts'[Len(verdicts')])
             => state' = "Found"
       /\ state = "Found"
             => (state' = "Found" /\ attempt' = attempt
                   /\ found_key' = found_key /\ result' = result)]_vars

\* a Found with a longer key length still untried, followed to the exit
C5_Witness ==
    /\ state = "Found"
    /\ pc = "exit"
    /\ data_length >= 1
    /\ Len(found_key) < max_key_length

\* the candidates std::next_permutation yields from s on, s included
RECURSIVE Enumerate(_)
Enumerate(s) ==
    LET np == NextPermutation(s)
    IN  <<s>> \o (IF np.more THEN Enumerate(np.str) ELSE << >>)

\* the candidates of the whole search, lengths 1..max in order
RECURSIVE AllCandidates(_, _)
AllCandidates(cs, max) ==
    IF max < 1 THEN << >>
    ELSE AllCandidates(cs, max - 1) \o Enumerate(InitialKeyStr(cs, max))

AllRejected ==
    /\ Len(verdicts) = Len(dispatched)
    /\ \A k \in 1..Len(verdicts) : ~verdicts[k]

\* C6: Exhausted.  Once brute_force_rc4_gpu has returned, the search is in
\* Exhausted exactly when every candidate the enumerator yields for lengths
\* 1..max_key_length was dispatched and rejected; Exhausted is never reached
\* after a failure, and it returns the empty result and reports no key.
C6_Exhausted ==
    /\ returned
          => (state = "Exhausted"
                <=> (dispatched = AllCandidates(charset, max_key_length)
                       /\ AllRejected))
    /\ state = "Exhausted"
          => /\ returned
             /\ what = ""
             /\ result = << >>
             /\ found_key = << >>
             /\ output_file = << >>

C6_Witness ==
    /\ state = "Exhausted"
    /\ pc = "exit"
    /\ Len(dispatched) = 2
    /\ data_length >= 1

BackendErrors ==
    InitErrors \cup
    {"OpenCL buffer creation error", "OpenCL kernel argument setting error",
     "OpenCL kernel enqueue error", "OpenCL buffer read error"}

\* C7: backend failure is fatal.  A failing backend call puts the search in
\* Error.  In Error nothing has been returned, printed as a result or
\* written, the validator has not run on the failed attempt, main exits
\* with 1, and no later step dispatches, binds, executes, reads or validates.
C7_BackendFailureFatal ==
    /\ [](state = "Error"
            => /\ ~returned
               /\ result = << >>
               /\ found_key = << >>
               /\ output_file = << >>
               /\ stdout = << >>
               /\ what \in BackendErrors
               /\ pc \in {"catch", "exit"}
               /\ (pc = "exit" => exit_code = 1)
               /\ \A k \in 1..Len(verdicts) : ~verdicts[k]
               /\ (dispatched # << >>
                     => Len(verdicts) = Len(dispatched) - 1))
    /\ [][/\ (what' # what /\ what' \in BackendErrors /\ ~returned)
                => state' = "Error"
          /\ state = "Error"
                => (state' = "Error" /\ attempt' = attempt
                      /\ result' = result /\ what' = what)]_vars

\* the read-back of the second attempt failed and main has exited
C7_Witness ==
    /\ state = "Error"
    /\ what = "OpenCL buffer read error"
    /\ Len(dispatched) = 2
    /\ pc = "exit"

\* the buffers of the device other than the ciphertext and output buffers
LiveKeyBuffers ==
    (DOMAIN mem) \ {encrypted_data_buffer, decrypted_data_buffer}

\* C8: transient key buffer lifetime.  In Found and in Exhausted no key
\* buffer remains allocated on the backend.
C8_KeyBufferReleased ==
    state \in {"Found", "Exhausted"} => LiveKeyBuffers = {}

\* C9: validator policy.  is_valid_plaintext accepts a buffer iff every
\* byte is printable (0x20..0x7E) or whitespace (0x09..0x0D, 0x20); so a
\* buffer holding 0x00 is rejected and the empty buffer is accepted.
C9_ValidatorPolicy ==
    vresult # "none"
        => (vresult = "accept"
              <=> \A k \in 1..Len(vdata) :
                     vdata[k] \in (32..126) \cup (9..13) \cup {32})

\* a two-byte buffer rejected because of a 0x00 byte
C9_Witness ==
    /\ vresult = "reject"
    /\ Len(vdata) = 2
    /\ 0 \in Range(vdata)
    /\ 65 \in Range(vdata)

C11_ConfigurationError ==
    (Len(charset) = 0 \/ max_key_length <= 0)
        => /\ dispatched = << >>
           /\ key_str = << >>
           /\ state \notin {"Found", "Exhausted"}
           /\ (pc = "exit" => exit_code = 1)

\* C12: termination.  Every run in which the calls return reaches a
\* terminal outcome (Found, Exhausted or a fatal backend error) and main
\* exits; the search does not loop forever.
C12_Termination ==
    <>(pc = "exit" /\ state \in {"Found", "Exhausted", "Error"})

\* main has exited after a search that went through every key length
C12_Witness ==
    /\ pc = "exit"
    /\ state = "Exhausted"
    /\ Len(dispatched) = MaxKeyLength
    /\ data_length >= 1

\* C13: search order and progress.  After every step the dispatched
\* candidates start at length 1, have non-decreasing lengths within
\* 1..max_key_length, end at max_key_length once the search is Exhausted,
\* and are pairwise different; a step only appends to them and never lowers
\* key_length.
C13_SearchOrder ==
    [][LET d == dispatched'
       IN  /\ d # << >> => Len(d[1]) = 1
           /\ \A k \in 1..Len(d) : Len(d[k]) \in 1..max_key_length
           /\ \A k \in 1..(Len(d) - 1) : Len(d[k]) <= Len(d[k + 1])
           /\ \A a, b \in 1..Len(d) : a < b => d[a] # d[b]
           /\ (state' = "Exhausted" /\ max_key_length >= 1)
                 => (d # << >> /\ Len(d[Len(d)]) = max_key_length)
           /\ d = dispatched \/ d = Append(dispatched, key_str)
           /\ key_length' >= key_length]_vars

\* a second candidate has been dispatched after the first was rejected
C13_Witness ==
    /\ Len(dispatched) = 2
    /\ verdicts = <<FALSE>>
    /\ Len(dispatched[2]) = 2
    /\ pc = "set_args"


\* C14: per-attempt protocol.  Within one attempt the backend operations
\* happen in the order: allocate the key buffer, bind the five kernel
\* arguments (ciphertext buffer, output buffer, key buffer, key length,
\* data length N), one execute of exactly N work units, a read-back of N
\* bytes that waits for all of them, validate.  A key buffer is allocated for
\* a new candidate only when every earlier candidate has its verdict.
AttemptOrder ==
    {<<"create_keys", "set_args">>, <<"set_args", "enqueue">>,
     <<"enqueue", "read">>, <<"read", "validate">>}

AttemptSteps == {"set_args", "enqueue", "read", "validate"}

C14_AttemptProtocol ==
    [][/\ (pc' # pc /\ pc' \in AttemptSteps) => <<pc, pc'>> \in AttemptOrder
       /\ dispatched' # dispatched
             => /\ pc = "create_keys"
                /\ Len(verdicts) = Len(dispatched)
                /\ dispatched' = Append(dispatched, key_str)
       /\ (pc = "create_keys" /\ pc' = "set_args")
             => /\ keys_buffer' \notin DOMAIN mem
                /\ keys_buffer' \in DOMAIN mem'
                /\ mem'[keys_buffer'] = key_str
                /\ Len(dispatched') = Len(verdicts) + 1
       /\ (pc = "set_args" /\ pc' = "enqueue")
             => kernel_args' = [encrypted_data |-> encrypted_data_buffer,
                                decrypted_data |-> decrypted_data_buffer,
                                keys           |-> keys_buffer,
                                key_length     |-> Len(key_str),
                                data_length    |-> Len(encrypted_data)]
       /\ (pc = "enqueue" /\ pc' = "read")
             => /\ pending = {}
                /\ pending' = 0..(Len(encrypted_data) - 1)
                /\ Cardinality(pending') = Len(encrypted_data)
       /\ (pc = "read" /\ pc' = "validate")
             => /\ pending = {}
                /\ decrypted_data' = mem[kernel_args.decrypted_data]
                /\ Len(decrypted_data') = Len(encrypted_data)
       /\ verdicts' # verdicts
             => /\ pc = "validate"
                /\ Len(verdicts') = Len(dispatched)]_vars

\* the second candidate has been read back after two work units ran
C14_Witness ==
    /\ pc = "validate"
    /\ Len(dispatched) = 2
    /\ verdicts = <<FALSE>>
    /\ Len(encrypted_data) = 2
    /\ kernel_args.key_length = 2


\* C15: work-unit independence.  While the kernel of one attempt runs, a
\* step of work unit gid retires exactly that unit, stores exactly output
\* position gid, a value that depends only on ciphertext[gid] and the key,
\* and touches no other buffer; a retired unit never runs again.  Hence,
\* in whatever order the units run, the bytes read back are the same
\* function of the ciphertext and the candidate, and each of the positions
\* 0..N-1 has been stored exactly once when the read-back completes.
UnitOutput(gid) ==
    Xor(encrypted_data[gid + 1], KernelKeystream(key_str, key_length, gid))

C15_WorkUnitIndependence ==
    [][/\ (pc = "read" /\ pc' = "read")
             => /\ pending' \subseteq pending
                /\ Cardinality(pending \ pending') <= 1
                /\ pending' = pending => mem' = mem
                /\ \A gid \in pending \ pending' :
                      LET out == mem[decrypted_data_buffer]
                          out2 == mem'[decrypted_data_buffer]
                      IN  /\ DOMAIN mem' = DOMAIN mem
                          /\ \A h \in (DOMAIN mem) \ {decrypted_data_buffer} :
                                mem'[h] = mem[h]
                          /\ Len(out2) = Len(out)
                          /\ \A p \in 1..Len(out) :
                                p # gid + 1 => out2[p] = out[p]
                          /\ out2[gid + 1] = UnitOutput(gid)
       /\ (pc = "read" /\ pc' = "validate")
             => /\ pending = {}
                /\ decrypted_data' =
                      [p \in 1..Len(encrypted_data) |-> UnitOutput(p - 1)]]_vars

\* of two work units, unit 1 has stored its byte and unit 0 has not yet run
C15_Witness ==
    /\ pc = "read"
    /\ Len(encrypted_data) = 2
    /\ pending = {0}
    /\ mem[decrypted_data_buffer][2] = UnitOutput(1)


\* C16: keystream state invariant.  In a work-item, once the table has been
\* filled with the identity, and after every exchange of the key-scheduling
\* loop and of the cursor-advance loop, the 256 entries of the table S are
\* values in 0..255 and no two of them are equal, so that every value 0..255
\* occurs exactly once; the cursors i and j are in 0..255 at all times.
C16_KeystreamStateInvariant ==
    /\ wu.i \in 0..255
    /\ wu.j \in 0..255
    /\ wu.pc \in {"ksa", "prga", "done"}
         => /\ DOMAIN wu.S = 0..255
            /\ \A x \in 0..255 : wu.S[x] \in 0..255
            /\ Cardinality({wu.S[x] : x \in 0..255}) = 256

\* the key schedule is over and a cursor-advance exchange has moved entries
C16_Witness ==
    /\ wu.pc = "prga"
    /\ wu.n >= 1
    /\ wu.i = wu.n
    /\ wu.S # IdentityState.S


\* C17: ciphertext residency and frame.  The ciphertext buffer is created,
\* holding the input bytes, exactly once and before the first candidate is
\* dispatched; from then on its handle, its presence on the backend and its
\* contents never change, and the host ciphertext never changes either: no
\* step of any attempt (allocate, bind, execute, read-back, release)
\* modifies them.
C17_CiphertextResident ==
    [][/\ encrypted_data' = encrypted_data
       /\ encrypted_data_buffer' # encrypted_data_buffer
             => /\ pc = "create_encrypted"
                /\ encrypted_data_buffer = 0
                /\ encrypted_data_buffer' \notin DOMAIN mem
                /\ dispatched' = << >>
       /\ encrypted_data_buffer # 0
             => /\ encrypted_data_buffer' = encrypted_data_buffer
                /\ encrypted_data_buffer \in DOMAIN mem'
                /\ mem'[encrypted_data_buffer] = mem[encrypted_data_buffer]
       /\ encrypted_data_buffer' # 0
             => /\ encrypted_data_buffer' \in DOMAIN mem'
                /\ mem'[encrypted_data_buffer'] = encrypted_data
       /\ dispatched' # << >> => encrypted_data_buffer # 0]_vars

\* two attempts have run their work units over a two-byte ciphertext
C17_Witness ==
    /\ pc = "release"
    /\ Len(verdicts) = 2
    /\ Len(encrypted_data) = 2
    /\ encrypted_data_buffer # 0
    /\ mem[encrypted_data_buffer] = encrypted_data
    /\ mem[decrypted_data_buffer] # encrypted_data


\* C18: result consistency in Found.  When the search ends in Found, the
\* key reported is the last candidate dispatched, the plaintext returned has
\* exactly N bytes, at every position it is the kernel's decryption of the
\* ciphertext byte under the reported key (no byte of the reused output
\* buffer or result vector survives from before), every byte of it is
\* printable or whitespace, and the output file, once written, holds it.
KernelDecryption(key) ==
    [p \in 1..Len(encrypted_data) |->
        Xor(encrypted_data[p], KernelKeystream(key, Len(key), p - 1))]

C18_FoundResultConsistent ==
    state = "Found"
        => /\ dispatched # << >>
           /\ found_key = dispatched[Len(dispatched)]
           /\ Len(result) = Len(encrypted_data)
           /\ result = KernelDecryption(found_key)
           /\ \A p \in 1..Len(result) :
                 result[p] \in (32..126) \cup (9..13)
           /\ pc = "exit" /\ exit_code = 0 => output_file = result

\* a two-byte plaintext has been found and written out
C18_Witness ==
    /\ state = "Found"
    /\ pc = "exit"
    /\ exit_code = 0
    /\ Len(result) = 2
    /\ output_file = result


\* C19: bounded live resources.  In every state at most one key buffer is
\* allocated on the backend and not released, and it is the one keys_buffer
\* names; the backend never holds more than three buffers (ciphertext,
\* output, one key buffer), however many candidates have been tried.
C19_BoundedLiveBuffers ==
    /\ Cardinality(LiveKeyBuffers) <= 1
    /\ LiveKeyBuffers \subseteq {keys_buffer}
    /\ Cardinality(DOMAIN mem) <= 3

\* the second candidate's key buffer is live next to the two long-lived
\* buffers, the first candidate's has been released
C19_Witness ==
    /\ Len(dispatched) = 2
    /\ Cardinality(DOMAIN mem) = 3
    /\ LiveKeyBuffers = {keys_buffer}
    /\ next_handle = 5

=============================================================================
